---- MODULE Spec2Model ----
(***************************************************************************)
(* A model of news_auto_scrapper: the batch loop of main.py, the per-URL   *)
(* pipeline WebScraper.process_url and the relevance filter                *)
(* WebScraper._filter_blocks_with_llm of src/scraper.py.                   *)
(*                                                                         *)
(* Seven specifications share the module.  SpecFilter draws a block list,  *)
(* an LLM configuration and an LLM reply and applies the filter once.      *)
(* SpecExtract draws a DOM tree and runs the extractor's script on it      *)
(* once.  Spec runs main(): parse, enter the scraper, process every task   *)
(* through the steps of process_url, leave the scraper, write the report.  *)
(* SpecLive is Spec run to its end.  SpecDialogs is Spec on pages that     *)
(* open JavaScript dialogs.  SpecFallback draws the HTML of a page and     *)
(* runs the whole-page text fallback on it.  SpecScraper constructs one    *)
(* WebScraper and calls _ensure_context and close on it in any order.      *)
(***************************************************************************)
EXTENDS Integers, Sequences, FiniteSets, TLC

VARIABLES
    \* ---- the filter called on its own (SpecFilter) ----
    f_pc,           \* "idle" | "call" | "done"
    f_blocks,       \* blocks argument of _filter_blocks_with_llm
    f_client,       \* self.llm_client is set
    f_reply,        \* what the LLM request produces
    f_out,          \* outcome of the call: returned list or raised exception
    \* ---- the extractor called on its own (SpecExtract) ----
    x_pc,           \* "idle" | "call" | "done"
    x_dom,          \* the page's DOM when the script runs
    x_evaluated,    \* what page.evaluate(script) gave
    x_candidates,   \* the script's candidates array when it returned
    x_out,          \* the list _collect_text_blocks returned
    \* ---- the whole-page fallback run on its own (SpecFallback) ----
    w_pc,           \* "idle" | "call" | "done"
    w_page,         \* the elements of the HTML page.content() returned
    w_out,          \* entry['text_blocks'] and entry['full_text'] it produced
    \* ---- one WebScraper object used on its own (SpecScraper) ----
    o_pc,           \* "idle" | "new" | "ready"
    o_args,         \* the arguments WebScraper(...) is called with
    o_self,         \* the attributes __init__ set
    o_shared,       \* its _playwright / _browser / _context
    o_call,         \* the last call made on it
    \* ---- a run of main() (Spec) ----
    main_pc,        \* position of main()
    cfg,            \* the WebScraper's configuration
    parse_outcome,  \* what TaskParser.parse did: "none" until it was called
    tasks,          \* the task dicts created by the parser (mutated in place)
    idx,            \* index of the task the for loop is at
    processed,      \* processed_tasks: references (indices) into tasks
    report,         \* entries the ReportGenerator received, in call order
    shared,         \* scraper._playwright / _browser / _context
    task_pc,        \* position of process_url inside the current task
    sess,           \* the browser/context/page launched by process_url, and
                    \* whether dialog.dismiss() tasks of its handler are in flight
    loc,            \* process_url's locals
    trail,          \* steps of the current process_url call that were executed
    fault           \* the exception that left process_url / main, if any

filter_vars == <<f_pc, f_blocks, f_client, f_reply, f_out>>
extract_vars == <<x_pc, x_dom, x_evaluated, x_candidates, x_out>>
fallback_vars == <<w_pc, w_page, w_out>>
scraper_vars == <<o_pc, o_args, o_self, o_shared, o_call>>
main_vars == <<main_pc, cfg, parse_outcome, tasks, idx, processed, report, shared,
               task_pc, sess, loc, trail, fault>>
vars == <<f_pc, f_blocks, f_client, f_reply, f_out,
          x_pc, x_dom, x_evaluated, x_candidates, x_out,
          w_pc, w_page, w_out,
          o_pc, o_args, o_self, o_shared, o_call,
          main_pc, cfg, parse_outcome, tasks, idx, processed, report, shared,
          task_pc, sess, loc, trail, fault>>

----------------------------------------------------------------------------
(* Bounds of the model *)

MaxBlocks == 6        \* longest exhaustively enumerated block list
MaxVerdictLen == 2    \* longest id list under one key of the LLM verdict
MaxTasks == 2         \* longest task list of a run

(* Program constants *)

TopN == 5             \* sorted_blocks[:5]
PreviewN == 10        \* sorted_blocks[:10]

----------------------------------------------------------------------------
(* Sequences *)

Min(a, b) == IF a <= b THEN a ELSE b

\* s[:k]
Take(s, k) == SubSeq(s, 1, Min(k, Len(s)))

\* [F(x) for x in s]
MapSeq(s, F(_)) == [i \in 1..Len(s) |-> F(s[i])]

SeqsUpTo(S, n) == UNION {[1..k -> S] : k \in 0..n}

----------------------------------------------------------------------------
(* Content blocks.  A text is identified by its body and has a length; a   *)
(* block is {id, text} (the selector only goes into the prompt).           *)

MkText(body, len) == [body |-> body, len |-> len]

\* len(block.get("text", ""))
TextLen(t) == t.len

\* id "block-k" is written k; 0 stands for any other string
Block(k, t) == [id |-> k, text |-> t]

BlockText(b) == b.text

\* sorted(blocks, key=lambda b: len(b.get("text", "")), reverse=True): Python's
\* sort is stable, also with reverse=True, so equal lengths keep input order.
Before(blocks, i, j) ==
    \/ TextLen(blocks[i].text) > TextLen(blocks[j].text)
    \/ TextLen(blocks[i].text) = TextLen(blocks[j].text) /\ i < j

sorted_by_length(blocks) ==
    [k \in 1..Len(blocks) |->
        blocks[CHOOSE i \in 1..Len(blocks) :
                 Cardinality({j \in 1..Len(blocks) : Before(blocks, j, i)}) = k - 1]]

\* [block["text"] for block in sorted_blocks[:5]]
top_texts(sorted_blocks) == MapSeq(Take(sorted_blocks, TopN), BlockText)

\* the blocks whose id, selector and 500-character snippet go into the prompt
preview_blocks(blocks) == Take(sorted_by_length(blocks), PreviewN)

----------------------------------------------------------------------------
(* The LLM reply.  The reply text is a sequence of tokens: "{" and "}" are *)
(* the braces find/rfind look for, "w" is any brace-free prose and "c" is  *)
(* brace-free object content whose JSON reading is the reply's body.       *)

\* An item of a verdict list: a bare string, an object, or anything else.
\* id_type is the JSON type of the object's "id" value ("absent": no "id" key).
StrItem(v) == [kind |-> "str", id_type |-> "str", v |-> v]
DictItem(id_type, v) == [kind |-> "dict", id_type |-> id_type, v |-> v]
OtherItem == [kind |-> "other", id_type |-> "absent", v |-> 0]

\* The value found under one key of the parsed object.
Absent == [kind |-> "absent", items |-> <<>>]
Scalar == [kind |-> "scalar", items |-> <<>>]
ListValue(items) == [kind |-> "list", items |-> items]

Verdict(s, k, b) == [selected |-> s, keep |-> k, blocks |-> b]
EmptyObject == Verdict(Absent, Absent, Absent)

\* str.find / str.rfind: 0-based index, -1 when the token does not occur
Find(s, tok) ==
    IF \E i \in 1..Len(s) : s[i] = tok
    THEN (CHOOSE i \in 1..Len(s) : s[i] = tok /\ \A j \in 1..(i - 1) : s[j] # tok) - 1
    ELSE -1

RFind(s, tok) ==
    IF \E i \in 1..Len(s) : s[i] = tok
    THEN (CHOOSE i \in 1..Len(s) : s[i] = tok /\ \A j \in (i + 1)..Len(s) : s[j] # tok) - 1
    ELSE -1

\* s[start:end + 1] for start, end >= 0
Slice(s, start, end) == SubSeq(s, start + 1, end + 1)

\* json.loads on a slice: [ok, value].  Only one object parses; its content is
\* what the body says, and the body itself may be malformed JSON.
json_loads(slice, body) ==
    IF slice = <<"{", "}">> THEN [ok |-> TRUE, value |-> EmptyObject]
    ELSE IF slice = <<"{", "c", "}">> /\ body.wellformed
         THEN [ok |-> TRUE, value |-> body.value]
    ELSE [ok |-> FALSE, value |-> EmptyObject]

\* The try block of _filter_blocks_with_llm: request, content, find/rfind, loads.
\* [ok |-> FALSE] is every path into "except Exception".
llm_parse(reply) ==
    IF reply.kind = "exception" THEN [ok |-> FALSE, value |-> EmptyObject]
    ELSE IF reply.kind = "no_content" THEN [ok |-> FALSE, value |-> EmptyObject]
    ELSE LET start == Find(reply.output, "{")
             end == RFind(reply.output, "}")
         IN IF start = -1 \/ end = -1
            THEN [ok |-> FALSE, value |-> EmptyObject]
            ELSE json_loads(Slice(reply.output, start, end), reply.body)

\* the inner "for item in value" loop: the ids one list contributes
item_ids(items) ==
    LET counts == SelectSeq(items, LAMBDA it :
                      it.kind = "str" \/ (it.kind = "dict" /\ it.id_type # "absent"))
    IN [i \in 1..Len(counts) |-> [type |-> counts[i].id_type, v |-> counts[i].v]]

\* a key loop without the break: every key's ids are collected
RECURSIVE collect_ids_all_keys(_, _, _)
collect_ids_all_keys(parsed, keys, selected_ids) ==
    IF keys = <<>> THEN selected_ids
    ELSE LET value == parsed[Head(keys)]
         IN collect_ids_all_keys(parsed, Tail(keys),
                IF value.kind = "list" THEN selected_ids \o item_ids(value.items)
                ELSE selected_ids)

\* the "for key in (selected, keep, blocks)" loop with its break
RECURSIVE collect_ids(_, _, _)
collect_ids(parsed, keys, selected_ids) ==
    IF keys = <<>> THEN selected_ids
    ELSE LET value == parsed[Head(keys)]
         IN IF value.kind = "list"
            THEN LET ids == selected_ids \o item_ids(value.items)
                 IN IF ids # <<>> THEN ids
                    ELSE collect_ids(parsed, Tail(keys), ids)
            ELSE collect_ids(parsed, Tail(keys), selected_ids)

VerdictKeys == <<"selected", "keep", "blocks">>

\* set(selected_ids) raises TypeError on a list or dict element
Hashable(idv) == idv.type \notin {"list", "dict"}

\* block["id"] in selected_ids
id_selected(block, selected_ids) ==
    \E i \in 1..Len(selected_ids) :
        selected_ids[i].type = "str" /\ selected_ids[i].v = block.id

Returned(texts) == [kind |-> "return", value |-> texts, exc |-> "none"]
Raised(exc) == [kind |-> "raise", value |-> <<>>, exc |-> exc]

\* lines 306-309: the selection resolved against the full block list
resolve_selection(blocks, selected_ids) ==
    LET filtered == MapSeq(SelectSeq(blocks, LAMBDA b : id_selected(b, selected_ids)),
                           BlockText)
    IN IF filtered = <<>> THEN top_texts(sorted_by_length(blocks)) ELSE filtered

_filter_blocks_with_llm(blocks, llm_client, reply) ==
    IF blocks = <<>> THEN Returned(<<>>)
    ELSE IF ~llm_client THEN Returned(top_texts(sorted_by_length(blocks)))
    ELSE LET parsed == llm_parse(reply)
         IN IF ~parsed.ok THEN Returned(top_texts(sorted_by_length(blocks)))
            ELSE LET selected_ids == collect_ids(parsed.value, VerdictKeys, <<>>)
                 IN IF \E i \in 1..Len(selected_ids) : ~Hashable(selected_ids[i])
                    THEN Raised("TypeError")
                    ELSE Returned(resolve_selection(blocks, selected_ids))

----------------------------------------------------------------------------
(* Inputs of the filter *)

MIN_LENGTH == 70
MAX_LENGTH == 2500

TextLens == {MIN_LENGTH, MAX_LENGTH}

\* ids the modelled LLM can name: "block-1".."block-3" and one other string (0)
NamedIds == {0, 1, 2, 3}

\* the blocks as the extractor numbers them: block-1 .. block-n
BlocksOf(n, lens) == [i \in 1..n |-> Block(i, MkText(<<i>>, lens[i]))]

SmallLists == UNION {{BlocksOf(n, lens) : lens \in [1..n -> TextLens]} : n \in 0..MaxBlocks}

\* one more block than the preview takes, the single short one among the named
LongLists ==
    {BlocksOf(PreviewN + 1,
              [i \in 1..(PreviewN + 1) |-> IF i = s THEN MIN_LENGTH ELSE MAX_LENGTH]) :
        s \in NamedIds \ {0}}

BlockLists == SmallLists \cup LongLists

Items ==
    {StrItem(v) : v \in NamedIds}
    \cup {DictItem("str", 2), DictItem("num", 1), DictItem("list", 0),
          DictItem("absent", 0), OtherItem}

KeyValues == {Absent, Scalar} \cup {ListValue(s) : s \in SeqsUpTo(Items, MaxVerdictLen)}

\* values tried under all three keys at once
MixValues ==
    {Absent, Scalar, ListValue(<<>>), ListValue(<<DictItem("absent", 0)>>),
     ListValue(<<StrItem(0)>>), ListValue(<<StrItem(1)>>), ListValue(<<StrItem(3)>>)}

Verdicts ==
    {Verdict(s, Absent, Absent) : s \in KeyValues}
    \cup {Verdict(s, k, b) : s \in MixValues, k \in MixValues, b \in MixValues}

Malformed == [wellformed |-> FALSE, value |-> EmptyObject]
Wellformed(v) == [wellformed |-> TRUE, value |-> v]

ExceptionReply == [kind |-> "exception", output |-> <<>>, body |-> Malformed]
NoContentReply == [kind |-> "no_content", output |-> <<>>, body |-> Malformed]
TextReply(output, body) == [kind |-> "text", output |-> output, body |-> body]

\* reply texts that never reach a parsed verdict, and two that hold nothing
BrokenTexts ==
    {<<>>, <<"w">>, <<"{", "c">>, <<"c", "}">>, <<"}", "w", "{">>,
     <<"{", "w", "}">>, <<"{", "c", "}", "w", "{", "c", "}">>, <<"{", "}">>,
     <<"w", "{", "}">>}

Replies ==
    {ExceptionReply, NoContentReply}
    \cup {TextReply(t, Wellformed(Verdict(ListValue(<<StrItem(1)>>), Absent, Absent))) :
            t \in BrokenTexts}
    \cup {TextReply(<<"{", "c", "}">>, Wellformed(v)) : v \in Verdicts}
    \cup {TextReply(<<"{", "c", "}">>, Malformed)}
    \cup {TextReply(<<"w", "{", "c", "}", "w">>, Wellformed(Verdict(s, Absent, Absent))) :
            s \in MixValues}

----------------------------------------------------------------------------
(* The block extractor: the script _collect_text_blocks evaluates in the    *)
(* page.  The DOM is a tree under document.body (node 0); nodes 1..n are    *)
(* numbered in document order.  A text is a sequence of runs, each a run of *)
(* white space or of other characters, so that trim() and length are what   *)
(* they are in the page.                                                    *)

MaxNodes == 3          \* most elements under document.body

MAX_CANDIDATES == 50   \* if (candidates.length >= 50) break
MAX_OUT == 30          \* blocks.length < 30

blacklist == {"script", "style", "nav", "footer", "header", "form", "noscript"}

Run(ws, n) == [ws |-> ws, n |-> n]

RECURSIVE RunsLen(_)
RunsLen(runs) == IF runs = <<>> THEN 0 ELSE Head(runs).n + RunsLen(Tail(runs))

RECURSIVE TrimStart(_)
TrimStart(runs) ==
    IF runs = <<>> THEN <<>>
    ELSE IF Head(runs).ws THEN TrimStart(Tail(runs))
    ELSE runs

RECURSIVE TrimEnd(_)
TrimEnd(runs) ==
    IF runs = <<>> THEN <<>>
    ELSE IF runs[Len(runs)].ws THEN TrimEnd(SubSeq(runs, 1, Len(runs) - 1))
    ELSE runs

\* String.prototype.trim
trim(runs) == TrimEnd(TrimStart(runs))

\* element.children, in document order
children(dom, node) ==
    LET kids == {i \in 1..dom.n : dom.parent[i] = node}
    IN [k \in 1..Cardinality(kids) |->
          CHOOSE i \in kids : Cardinality({j \in kids : j < i}) = k - 1]

\* element.innerText || "": the element's own text, then that of its children
RECURSIVE innerText(_, _)
RECURSIVE TextOfAll(_, _)
innerText(dom, node) ==
    (IF node = 0 THEN <<>> ELSE dom.own[node]) \o TextOfAll(dom, children(dom, node))

TextOfAll(dom, nodes) ==
    IF nodes = <<>> THEN <<>>
    ELSE innerText(dom, Head(nodes)) \o TextOfAll(dom, Tail(nodes))

\* a.contains(b): b is a or a descendant of a
RECURSIVE contains(_, _, _)
contains(dom, a, b) ==
    IF a = b THEN TRUE
    ELSE IF b = 0 THEN FALSE
    ELSE contains(dom, a, dom.parent[b])

\* the TreeWalker's acceptNode filter
acceptNode(dom, node) ==
    IF dom.tag[node] \in blacklist THEN "FILTER_REJECT"
    ELSE IF RunsLen(trim(innerText(dom, node))) < MIN_LENGTH THEN "FILTER_SKIP"
    ELSE "FILTER_ACCEPT"

\* the nodes walker.nextNode() stops at, in order: a rejected node hides its
\* subtree, a skipped one does not; the root itself is never returned
RECURSIVE walk(_, _)
RECURSIVE WalkAll(_, _)
walk(dom, node) ==
    LET verdict == IF node = 0 THEN "FILTER_SKIP" ELSE acceptNode(dom, node)
    IN IF verdict = "FILTER_REJECT" THEN <<>>
       ELSE (IF verdict = "FILTER_ACCEPT" THEN <<node>> ELSE <<>>)
            \o WalkAll(dom, children(dom, node))

WalkAll(dom, nodes) ==
    IF nodes = <<>> THEN <<>>
    ELSE walk(dom, Head(nodes)) \o WalkAll(dom, Tail(nodes))

\* an addCandidate without the containment test
never_inside(dom, candidates, element) == FALSE

\* candidates.some(entry => entry.element.contains(element))
inside_candidate(dom, candidates, element) ==
    \E k \in 1..Len(candidates) : contains(dom, candidates[k].element, element)

\* a test of the children that wants more than 60%
hasHeavierChild(dom, element, trimmedLength) ==
    \E c \in 1..dom.n :
        /\ dom.parent[c] = element
        /\ 10 * RunsLen(trim(innerText(dom, c))) > 6 * trimmedLength

\* childText.length >= trimmedLength * 0.6 for some child
hasHeavyChild(dom, element, trimmedLength) ==
    \E c \in 1..dom.n :
        /\ dom.parent[c] = element
        /\ 10 * RunsLen(trim(innerText(dom, c))) >= 6 * trimmedLength

\* addCandidate: the candidates after the call; the text kept is not trimmed
addCandidate(dom, candidates, element) ==
    LET text == innerText(dom, element)
        trimmed == trim(text)
    IN IF dom.tag[element] \in blacklist THEN candidates
       ELSE IF RunsLen(trimmed) < MIN_LENGTH \/ RunsLen(trimmed) > MAX_LENGTH THEN candidates
       ELSE IF inside_candidate(dom, candidates, element) THEN candidates
       ELSE IF hasHeavyChild(dom, element, RunsLen(trimmed)) THEN candidates
       ELSE Append(candidates, [element |-> element, text |-> text])

\* while (walker.nextNode()) { addCandidate(...); if (length >= 50) break; }
RECURSIVE walk_candidates(_, _, _)
walk_candidates(dom, candidates, nodes) ==
    IF nodes = <<>> THEN candidates
    ELSE LET next == addCandidate(dom, candidates, Head(nodes))
         IN IF Len(next) >= MAX_CANDIDATES THEN next
            ELSE walk_candidates(dom, next, Tail(nodes))

\* document.querySelectorAll("p"), in document order
paragraphs(dom) == SelectSeq([i \in 1..dom.n |-> i], LAMBDA i : dom.tag[i] = "p")

\* document.querySelectorAll("p").forEach(addCandidate)
RECURSIVE add_each(_, _, _)
add_each(dom, candidates, nodes) ==
    IF nodes = <<>> THEN candidates
    ELSE LET next == addCandidate(dom, candidates, Head(nodes))
         IN IF Len(next) = Len(candidates) THEN add_each(dom, candidates, Tail(nodes))
            ELSE add_each(dom, next, Tail(nodes))

\* the candidates of the script: the tree walk, else the paragraphs
collect_candidates(dom) ==
    LET walked == walk_candidates(dom, <<>>, walk(dom, 0))
    IN IF walked = <<>> THEN add_each(dom, <<>>, paragraphs(dom)) ELSE walked

\* blocks.push({id: `block-${i + 1}`, selector, text: entry.text})
emit_blocks(candidates) ==
    [i \in 1..Min(Len(candidates), MAX_OUT) |->
        Block(i, MkText(<<candidates[i].element>>, RunsLen(candidates[i].text)))]

\* what page.evaluate(script) gives: the blocks, or an exception
Evaluated(blocks) == [raised |-> FALSE, value |-> blocks]
EvaluateRaised == [raised |-> TRUE, value |-> <<>>]

\* an extractor that answers a failed evaluation with a placeholder block
placeholder_on_failure(evaluated) ==
    IF evaluated.raised THEN <<Block(1, MkText(<<1>>, MIN_LENGTH))>> ELSE evaluated.value

\* lines 237-241
_collect_text_blocks(evaluated) ==
    IF evaluated.raised THEN <<>> ELSE evaluated.value

(* Inputs of the extractor *)

Tags == {"div", "p", "nav"}

\* 105 of the 175 characters of a 70-character element around a
\* 105-character child are the child's: 60% exactly
OwnTexts ==
    {<<>>, <<Run(FALSE, MIN_LENGTH)>>, <<Run(FALSE, 105)>>,
     <<Run(TRUE, 1), Run(FALSE, MAX_LENGTH)>>}

\* parent pointers that number the nodes in document order
DocumentOrder(n, parent) ==
    /\ \A i \in 1..n : parent[i] < i
    /\ \A i \in 2..n : contains([n |-> n, parent |-> parent], parent[i], i - 1)

\* d is a page of at most MaxNodes elements
IsDom(d) ==
    \E n \in 0..MaxNodes :
        \E par \in [1..n -> 0..MaxNodes] :
            /\ DocumentOrder(n, par)
            /\ \E tag \in [1..n -> Tags], own \in [1..n -> OwnTexts] :
                   d = [n |-> n, parent |-> par, tag |-> tag, own |-> own]

MaxParagraphs == 51   \* most paragraphs of a long page

\* a long page: one wrapper element around k paragraphs of MIN_LENGTH characters
LongPage(wrapper, k) ==
    [n |-> k + 1,
     parent |-> [i \in 1..(k + 1) |-> IF i = 1 THEN 0 ELSE 1],
     tag |-> [i \in 1..(k + 1) |-> IF i = 1 THEN wrapper ELSE "p"],
     own |-> [i \in 1..(k + 1) |-> IF i = 1 THEN <<>> ELSE <<Run(FALSE, MIN_LENGTH)>>]]

\* numbers of paragraphs around the two caps
ParagraphCounts ==
    {k \in 1..MaxParagraphs :
        \/ k \in (MAX_OUT - 1)..(MAX_OUT + 1)
        \/ k >= MAX_CANDIDATES - 1}

\* d is a long page
IsLongPage(d) ==
    \E wrapper \in Tags, k \in ParagraphCounts : d = LongPage(wrapper, k)

----------------------------------------------------------------------------
(* The whole-page fallback (process_url, lines 629-641).  A text is a      *)
(* sequence of characters: "w" is any visible character, " " a blank and   *)
(* "\n" a line break.  A page is the sequence of its elements, each with a  *)
(* tag and the text inside it.                                             *)

MaxPageNodes == 2     \* most elements of a page given to the fallback

\* soup(["script", "style", "nav", "footer"])
NonContent == {"script", "style", "nav", "footer"}

Whitespace == {" ", "\n"}

\* str.strip()
RECURSIVE lstrip(_)
lstrip(t) == IF t # <<>> /\ Head(t) \in Whitespace THEN lstrip(Tail(t)) ELSE t

RECURSIVE rstrip(_)
rstrip(t) ==
    IF t # <<>> /\ t[Len(t)] \in Whitespace THEN rstrip(SubSeq(t, 1, Len(t) - 1)) ELSE t

strip(t) == rstrip(lstrip(t))

\* sep.join(texts)
RECURSIVE join(_, _)
join(sep, texts) ==
    IF texts = <<>> THEN <<>>
    ELSE IF Len(texts) = 1 THEN texts[1]
    ELSE texts[1] \o sep \o join(sep, Tail(texts))

\* the extract() of every non-content element, then soup.get_text(separator="\n"):
\* the text nodes that are left, joined by line breaks
get_text(page) ==
    LET kept == SelectSeq(page, LAMBDA el : el.tag \notin NonContent /\ el.text # <<>>)
    IN join(<<"\n">>, [i \in 1..Len(kept) |-> kept[i].text])

\* raw_text.splitlines()
RECURSIVE splitlines(_)
splitlines(t) ==
    IF t = <<>> THEN <<>>
    ELSE IF \E k \in 1..Len(t) : t[k] = "\n"
    THEN LET k == CHOOSE k \in 1..Len(t) :
                      t[k] = "\n" /\ \A j \in 1..(k - 1) : t[j] # "\n"
         IN <<SubSeq(t, 1, k - 1)>> \o splitlines(SubSeq(t, k + 1, Len(t)))
    ELSE <<t>>

\* line.split("  ")
RECURSIVE split_double_blank(_)
split_double_blank(t) ==
    IF \E k \in 1..(Len(t) - 1) : t[k] = " " /\ t[k + 1] = " "
    THEN LET k == CHOOSE k \in 1..(Len(t) - 1) :
                      /\ t[k] = " " /\ t[k + 1] = " "
                      /\ \A j \in 1..(k - 1) : ~(t[j] = " " /\ t[j + 1] = " ")
         IN <<SubSeq(t, 1, k - 1)>> \o split_double_blank(SubSeq(t, k + 2, Len(t)))
    ELSE <<t>>

\* (phrase.strip() for line in lines for phrase in line.split("  "))
RECURSIVE phrases(_)
phrases(lines) ==
    IF lines = <<>> THEN <<>>
    ELSE MapSeq(split_double_blank(strip(Head(lines))), strip) \o phrases(Tail(lines))

\* lines 631-641: raw_text, the chunks joined into extracted_text, and
\* entry['text_blocks'] = [raw_text]
whole_page_fallback(page) ==
    LET raw_text == get_text(page)
        chunks == phrases(splitlines(raw_text))
    IN [text_blocks |-> <<raw_text>>,
        full_text |-> [sep |-> "\n", parts |-> SelectSeq(chunks, LAMBDA chunk : chunk # <<>>)]]

(* Inputs of the fallback *)

PageTags == {"p", "script"}

NodeTexts ==
    {<<>>, <<"w">>, <<" ", "w">>, <<"w", " ", " ", "w">>, <<"w", "\n", "w", " ">>}

Pages == SeqsUpTo([tag : PageTags, text : NodeTexts], MaxPageNodes)

----------------------------------------------------------------------------
(* The state of a run of main() *)

Configs ==
    {c \in [use_llm : BOOLEAN, llm_client : BOOLEAN, capture_with_pyautogui : BOOLEAN,
            interact_with_telegram : BOOLEAN, use_persistent : BOOLEAN,
            mask_automation : {TRUE}] :
        c.llm_client => c.use_llm}

NoText == [sep |-> "", parts |-> <<>>]

\* the dict TaskParser.parse appends for the i-th URL; keys holds the keys that
\* process_url added, the fields after it their values
NewTask(i) ==
    [source |-> i, date |-> i, title |-> "None", url |-> i, snippet |-> i,
     keys |-> {}, status |-> "", error |-> "",
     screenshot_path |-> <<>>, telegram_screenshot_path |-> <<>>,
     text_blocks |-> <<>>, full_text |-> NoText]

\* live: what is open; attempted: what close() called close()/stop() on;
\* orphaned: what is open and no longer referenced, its attribute having been
\* assigned a new object
NoShared ==
    [_playwright |-> FALSE, _browser |-> FALSE, _context |-> FALSE, live |-> {},
     attempted |-> {}, orphaned |-> {}]
NoSess == [playwright |-> "none", launched |-> {}, close_called |-> {}, dismissing |-> FALSE]
NoLoc ==
    [telegram_prompt_opened |-> FALSE, mask_attempted |-> FALSE,
     mask_pending |-> FALSE, shot_by |-> "none",
     shot_attempts |-> <<>>, telegram_window |-> "none",
     evaluate_raised |-> FALSE, text_blocks |-> <<>>, exc |-> ""]
NoFault == [raised |-> FALSE, msg |-> ""]
Fault(msg) == [raised |-> TRUE, msg |-> msg]

FilterIdle ==
    /\ f_pc = "idle"
    /\ f_blocks = <<>>
    /\ f_client = FALSE
    /\ f_reply = ExceptionReply
    /\ f_out = Returned(<<>>)

ExtractIdle ==
    /\ x_pc = "idle"
    /\ x_dom = [n |-> 0, parent |-> <<>>, tag |-> <<>>, own |-> <<>>]
    /\ x_evaluated = Evaluated(<<>>)
    /\ x_candidates = <<>>
    /\ x_out = <<>>

FallbackIdle ==
    /\ w_pc = "idle"
    /\ w_page = <<>>
    /\ w_out = [text_blocks |-> <<>>, full_text |-> NoText]

\* WebScraper(...): the arguments main.py draws from the command line
ScraperArgs ==
    [headless : BOOLEAN, use_llm : BOOLEAN, capture_with_pyautogui : BOOLEAN,
     user_data_dir : {"None", "profile"}, extension_path : {"None", "", "extension"},
     llm_base_url : {"None", "http://localhost"}]

NoArgs ==
    [headless |-> TRUE, use_llm |-> FALSE, capture_with_pyautogui |-> FALSE,
     user_data_dir |-> "None", extension_path |-> "None", llm_base_url |-> "None"]

NoSelf ==
    [headless |-> TRUE, use_llm |-> FALSE, capture_with_pyautogui |-> FALSE,
     user_data_dir |-> "None", extension_path |-> "None", llm_client |-> FALSE]

\* name: "none" | "_ensure_context" | "close"; before: _playwright / _browser /
\* _context when the call was made; after_close: the call before it was a
\* close() that returned
NoCall == [name |-> "none", raised |-> FALSE, before |-> NoShared, after_close |-> FALSE]

ScraperIdle ==
    /\ o_pc = "idle"
    /\ o_args = NoArgs
    /\ o_self = NoSelf
    /\ o_shared = NoShared
    /\ o_call = NoCall

MainIdle ==
    /\ main_pc = "idle"
    /\ cfg \in {c \in Configs : ~c.use_llm /\ ~c.capture_with_pyautogui
                               /\ ~c.interact_with_telegram /\ ~c.use_persistent}
    /\ parse_outcome = "none"
    /\ tasks = <<>>
    /\ idx = 0
    /\ processed = <<>>
    /\ report = <<>>
    /\ shared = NoShared
    /\ task_pc = "idle"
    /\ sess = NoSess
    /\ loc = NoLoc
    /\ trail = <<>>
    /\ fault = NoFault

----------------------------------------------------------------------------
(* SpecFilter: one call of _filter_blocks_with_llm *)

InitFilter ==
    /\ f_pc = "call"
    /\ f_blocks \in BlockLists
    /\ f_client \in BOOLEAN
    /\ f_reply \in (IF f_client THEN Replies ELSE {ExceptionReply})
    /\ f_out = Returned(<<>>)
    /\ ExtractIdle
    /\ FallbackIdle
    /\ ScraperIdle
    /\ MainIdle

FilterCall ==
    /\ f_pc = "call"
    /\ f_out' = _filter_blocks_with_llm(f_blocks, f_client, f_reply)
    /\ f_pc' = "done"
    /\ UNCHANGED <<f_blocks, f_client, f_reply>>
    /\ UNCHANGED extract_vars
    /\ UNCHANGED fallback_vars
    /\ UNCHANGED main_vars
    /\ UNCHANGED scraper_vars

NextFilter == FilterCall

SpecFilter == InitFilter /\ [][NextFilter]_vars

----------------------------------------------------------------------------
(* SpecExtract: one call of _collect_text_blocks *)

InitExtract ==
    /\ x_pc = "call"
    /\ IsDom(x_dom) \/ IsLongPage(x_dom)
    /\ x_evaluated = Evaluated(<<>>)
    /\ x_candidates = <<>>
    /\ x_out = <<>>
    /\ FilterIdle
    /\ FallbackIdle
    /\ ScraperIdle
    /\ MainIdle

\* page.evaluate runs the script to its end in the page, or raises
ExtractCall ==
    /\ x_pc = "call"
    /\ \/ /\ x_candidates' = collect_candidates(x_dom)
          /\ x_evaluated' = Evaluated(emit_blocks(x_candidates'))
       \/ /\ x_candidates' = <<>>
          /\ x_evaluated' = EvaluateRaised
    /\ x_out' = _collect_text_blocks(x_evaluated')
    /\ x_pc' = "done"
    /\ UNCHANGED x_dom
    /\ UNCHANGED filter_vars
    /\ UNCHANGED fallback_vars
    /\ UNCHANGED main_vars
    /\ UNCHANGED scraper_vars

NextExtract == ExtractCall

SpecExtract == InitExtract /\ [][NextExtract]_vars

----------------------------------------------------------------------------
(* SpecFallback: the else branch of process_url (lines 629-641) on one page *)

InitFallback ==
    /\ w_pc = "call"
    /\ w_page \in Pages
    /\ w_out = [text_blocks |-> <<>>, full_text |-> NoText]
    /\ FilterIdle
    /\ ExtractIdle
    /\ ScraperIdle
    /\ MainIdle

FallbackCall ==
    /\ w_pc = "call"
    /\ w_out' = whole_page_fallback(w_page)
    /\ w_pc' = "done"
    /\ UNCHANGED w_page
    /\ UNCHANGED filter_vars
    /\ UNCHANGED extract_vars
    /\ UNCHANGED main_vars
    /\ UNCHANGED scraper_vars

NextFallback == FallbackCall

SpecFallback == InitFallback /\ [][NextFallback]_vars

----------------------------------------------------------------------------
(* Spec: a run of main() *)

\* what the page and the LLM give process_url
B1 == Block(1, MkText(<<1>>, MIN_LENGTH))
B2 == Block(2, MkText(<<2>>, MAX_LENGTH))
PageBlocks == {<<>>, <<B1, B2>>}

PageReplies ==
    {ExceptionReply,
     TextReply(<<"{", "c", "}">>, Wellformed(Verdict(ListValue(<<StrItem(2)>>), Absent, Absent))),
     TextReply(<<"{", "c", "}">>,
               Wellformed(Verdict(ListValue(<<DictItem("list", 0)>>), Absent, Absent)))}

\* soup.get_text of the page with script/style/nav/footer removed
RawText == MkText(<<0>>, MAX_LENGTH)

\* str(e) of the exceptions the awaited calls raise
GotoErrors == {"Timeout 30000ms exceeded"}
StepError(step) == step \o " failed"

\* entry[key] = value
SetKey(e, key, value) ==
    [[e EXCEPT !.keys = @ \cup {key}] EXCEPT ![key] = value]

Has(e, key) == key \in e.keys

\* "\n\n".join(block for block in filtered_blocks if block)
join_blocks(filtered_blocks) ==
    [sep |-> "\n\n", parts |-> SelectSeq(filtered_blocks, LAMBDA t : TextLen(t) > 0)]

Init ==
    /\ main_pc = "parse"
    /\ cfg \in Configs
    /\ parse_outcome = "none"
    /\ tasks = <<>>
    /\ idx = 0
    /\ processed = <<>>
    /\ report = <<>>
    /\ shared = NoShared
    /\ task_pc = "idle"
    /\ sess = NoSess
    /\ loc = NoLoc
    /\ trail = <<>>
    /\ fault = NoFault
    /\ FilterIdle
    /\ ExtractIdle
    /\ FallbackIdle
    /\ ScraperIdle

InTask(pc) == main_pc = "task" /\ task_pc = pc

\* what TaskParser.parse does: it raises, returns [] or returns tasks
ParseOutcomes == {"raised", "empty", "tasks"}

\* a main() that goes on with an empty task list
after_parse_unchecked(outcome, preview_mode) ==
    IF outcome = "raised" THEN "exit1"
    ELSE IF outcome = "tasks" /\ preview_mode THEN "exit0"
    ELSE "enter"

\* main.py 137-157: where main() goes after the parse: sys.exit(1) when it
\* raised, sys.exit(0) when there are no tasks or after the preview
after_parse(outcome, preview_mode) ==
    IF outcome = "raised" THEN "exit1"
    ELSE IF outcome = "empty" THEN "exit0"
    ELSE IF preview_mode THEN "exit0"
    ELSE "enter"

\* main.py 137-157: parse, stop on an unreadable or empty input, cut to
\* --max-tasks (kept of parsed), stop after the preview
ParseInput ==
    /\ main_pc = "parse"
    /\ \E outcome \in ParseOutcomes, parsed \in 1..MaxTasks, kept \in 0..MaxTasks,
          preview_mode \in BOOLEAN :
         /\ kept <= parsed
         /\ parse_outcome' = outcome
         /\ tasks' = IF outcome = "tasks" THEN [i \in 1..kept |-> NewTask(i)] ELSE <<>>
         /\ main_pc' = after_parse(outcome, preview_mode)
    /\ UNCHANGED <<cfg, idx, processed, report, shared, task_pc, sess, loc, trail, fault>>
    /\ UNCHANGED filter_vars
    /\ UNCHANGED extract_vars
    /\ UNCHANGED fallback_vars
    /\ UNCHANGED scraper_vars

\* the attribute is assigned a newly opened object
opened(sh, attribute, object) ==
    [sh EXCEPT ![attribute] = TRUE,
               !.orphaned = IF object \in sh.live THEN @ \cup {object} ELSE @,
               !.live = @ \cup {object}]

\* WebScraper._ensure_context: the state it leaves and whether it raised
_ensure_context(sh, c, outcome) ==
    IF sh._context THEN [shared |-> sh, raised |-> FALSE]
    ELSE IF outcome = "start_fails" THEN [shared |-> sh, raised |-> TRUE]
    ELSE LET started == opened(sh, "_playwright", "playwright")
         IN IF outcome = "launch_fails" THEN [shared |-> started, raised |-> TRUE]
            ELSE IF c.use_persistent
            THEN [shared |-> opened(started, "_context", "context"), raised |-> FALSE]
            ELSE LET launched == opened(started, "_browser", "browser")
                 IN IF outcome = "context_fails"
                    THEN [shared |-> launched, raised |-> TRUE]
                    ELSE [shared |-> opened(launched, "_context", "context"),
                          raised |-> FALSE]

\* WebScraper.close: the state it leaves and whether it raised; a browser that
\* closes takes its contexts with it, a driver that stops its browsers
close(sh, outcome) ==
    LET s1 == [sh EXCEPT !._context = FALSE,
                         !.attempted = IF sh._context THEN @ \cup {"context"} ELSE @,
                         !.live = IF sh._context /\ outcome # "context_close_fails"
                                  THEN @ \ {"context"} ELSE @]
    IN IF sh._context /\ outcome = "context_close_fails"
       THEN [shared |-> s1, raised |-> TRUE]
       ELSE LET s2 == [s1 EXCEPT !._browser = FALSE,
                                 !.attempted = IF s1._browser THEN @ \cup {"browser"} ELSE @,
                                 !.live = IF s1._browser /\ outcome # "browser_close_fails"
                                          THEN @ \ {"browser", "context"} ELSE @]
            IN IF s1._browser /\ outcome = "browser_close_fails"
               THEN [shared |-> s2, raised |-> TRUE]
               ELSE IF s2._playwright /\ outcome = "stop_fails"
               THEN [shared |-> [s2 EXCEPT !.attempted = @ \cup {"playwright"}],
                     raised |-> TRUE]
               ELSE [shared |-> [s2 EXCEPT !._playwright = FALSE,
                                           !.attempted = IF s2._playwright
                                                         THEN @ \cup {"playwright"} ELSE @,
                                           !.live = IF s2._playwright THEN {} ELSE @],
                     raised |-> FALSE]

EnsureOutcomes == {"ok", "start_fails", "launch_fails", "context_fails"}
CloseOutcomes == {"ok", "context_close_fails", "browser_close_fails", "stop_fails"}

\* main.py 161-173: WebScraper(...) and __aenter__
EnterScraper ==
    /\ main_pc = "enter"
    /\ \E outcome \in EnsureOutcomes :
         LET r == _ensure_context(shared, cfg, outcome)
         IN /\ shared' = r.shared
            /\ main_pc' = IF r.raised THEN "aborted" ELSE "loop"
            /\ fault' = IF r.raised THEN Fault(StepError("_ensure_context")) ELSE fault
    /\ idx' = 1
    /\ UNCHANGED <<cfg, parse_outcome, tasks, processed, report, task_pc, sess, loc, trail>>
    /\ UNCHANGED filter_vars
    /\ UNCHANGED extract_vars
    /\ UNCHANGED fallback_vars
    /\ UNCHANGED scraper_vars

\* main.py 176-178: the for loop takes the next task and calls process_url
NextTask ==
    /\ main_pc = "loop"
    /\ idx <= Len(tasks)
    /\ main_pc' = "task"
    /\ task_pc' = "start"
    /\ sess' = NoSess
    /\ loc' = NoLoc
    /\ trail' = <<>>
    /\ UNCHANGED <<cfg, parse_outcome, tasks, idx, processed, report, shared, fault>>
    /\ UNCHANGED filter_vars
    /\ UNCHANGED extract_vars
    /\ UNCHANGED fallback_vars
    /\ UNCHANGED scraper_vars

\* a loop that collects the results newest first
append_result_reversed(done, result) == <<result>> \o done

\* main.py 178-179: process_url returned (its locals are gone);
\* processed_tasks.append(result)
append_result(done, result) == Append(done, result)

ReturnEntry ==
    /\ InTask("return")
    /\ processed' = append_result(processed, idx)
    /\ idx' = idx + 1
    /\ main_pc' = "loop"
    /\ task_pc' = "idle"
    /\ sess' = NoSess
    /\ loc' = NoLoc
    /\ trail' = <<>>
    /\ UNCHANGED <<cfg, parse_outcome, tasks, report, shared, fault>>
    /\ UNCHANGED filter_vars
    /\ UNCHANGED extract_vars
    /\ UNCHANGED fallback_vars
    /\ UNCHANGED scraper_vars

\* process_url raised: the exception leaves the "async with WebScraper" block
\* through __aexit__ (close) and ends main()
TaskRaised ==
    /\ InTask("raised")
    /\ \E outcome \in CloseOutcomes :
         shared' = close(shared, outcome).shared
    /\ main_pc' = "aborted"
    /\ task_pc' = "idle"
    /\ sess' = NoSess
    /\ loc' = NoLoc
    /\ trail' = <<>>
    /\ UNCHANGED <<cfg, parse_outcome, tasks, idx, processed, report, fault>>
    /\ UNCHANGED filter_vars
    /\ UNCHANGED extract_vars
    /\ UNCHANGED fallback_vars
    /\ UNCHANGED scraper_vars

\* the loop is over: __aexit__ (close), then the report
ExitScraper ==
    /\ main_pc = "loop"
    /\ idx > Len(tasks)
    /\ \E outcome \in CloseOutcomes :
         LET r == close(shared, outcome)
         IN /\ shared' = r.shared
            /\ main_pc' = IF r.raised THEN "aborted" ELSE "report"
            /\ fault' = IF r.raised THEN Fault(StepError("close")) ELSE fault
    /\ UNCHANGED <<cfg, parse_outcome, tasks, idx, processed, report, task_pc, sess, loc, trail>>
    /\ UNCHANGED filter_vars
    /\ UNCHANGED extract_vars
    /\ UNCHANGED fallback_vars
    /\ UNCHANGED scraper_vars

\* ReportGenerator.add_entry: what one call puts into the document
add_entry(entry, ref) ==
    [task |-> ref, source |-> entry.source, date |-> entry.date, url |-> entry.url,
     failure_notice |-> (Has(entry, "status") /\ entry.status = "failed"),
     page_break |-> TRUE]

\* main.py 183-184: for task in processed_tasks: writer.add_entry(task)
AddEntry ==
    /\ main_pc = "report"
    /\ Len(report) < Len(processed)
    /\ LET ref == processed[Len(report) + 1]
       IN report' = Append(report, add_entry(tasks[ref], ref))
    /\ UNCHANGED <<main_pc, cfg, parse_outcome, tasks, idx, processed, shared, task_pc, sess, loc,
                   trail, fault>>
    /\ UNCHANGED filter_vars
    /\ UNCHANGED extract_vars
    /\ UNCHANGED fallback_vars
    /\ UNCHANGED scraper_vars

\* main.py 186: writer.save()
SaveReport ==
    /\ main_pc = "report"
    /\ Len(report) = Len(processed)
    /\ main_pc' = "done"
    /\ UNCHANGED <<cfg, parse_outcome, tasks, idx, processed, report, shared, task_pc, sess, loc,
                   trail, fault>>
    /\ UNCHANGED filter_vars
    /\ UNCHANGED extract_vars
    /\ UNCHANGED fallback_vars
    /\ UNCHANGED scraper_vars

----------------------------------------------------------------------------
(* WebScraper.process_url, one action per awaited step *)

Entry == tasks[idx]

TaskFrame == UNCHANGED <<main_pc, cfg, parse_outcome, idx, processed, report, shared>>

\* a try block that notes the exception and goes on with the extraction
raise_and_go_on(msg) ==
    /\ loc' = [loc EXCEPT !.exc = msg]
    /\ task_pc' = "extract"

\* an exception raised inside the try block (lines 572-646) goes to "except"
RaiseInTry(msg) ==
    /\ loc' = [loc EXCEPT !.exc = msg]
    /\ task_pc' = "except"

\* line 531: async with async_playwright() as p
StartPlaywright ==
    /\ InTask("start")
    /\ \/ /\ sess' = [sess EXCEPT !.playwright = "started"]
          /\ task_pc' = "launch"
          /\ UNCHANGED fault
       \/ /\ fault' = Fault(StepError("async_playwright"))
          /\ task_pc' = "raised"
          /\ UNCHANGED sess
    /\ UNCHANGED <<tasks, loc, trail>>
    /\ TaskFrame
    /\ UNCHANGED filter_vars
    /\ UNCHANGED extract_vars
    /\ UNCHANGED fallback_vars
    /\ UNCHANGED scraper_vars

\* lines 545-566: what is launched before the call the outcome names raises
launch(c, outcome) ==
    IF outcome = "launch_fails" THEN {}
    ELSE IF c.use_persistent
    THEN (IF outcome = "page_fails" THEN {"context"} ELSE {"context", "page"})
    ELSE (IF outcome = "context_fails" THEN {"browser"}
          ELSE IF outcome = "page_fails" THEN {"browser", "context"}
          ELSE {"browser", "context", "page"})

\* str(e) of the launch call that raised
LaunchError(c, outcome) ==
    IF outcome = "launch_fails"
    THEN (IF c.use_persistent THEN StepError("launch_persistent_context")
          ELSE StepError("chromium.launch"))
    ELSE IF outcome = "context_fails" THEN StepError("browser.new_context")
    ELSE StepError("context.new_page")

LaunchOutcomes(c) ==
    IF c.use_persistent THEN {"ok", "launch_fails", "page_fails"}
    ELSE {"ok", "launch_fails", "context_fails", "page_fails"}

\* lines 545-566 are outside the try: an exception here leaves process_url
\* through the exit of "async with async_playwright()" only
LaunchSession ==
    /\ InTask("launch")
    /\ \E outcome \in LaunchOutcomes(cfg) :
         /\ sess' = [sess EXCEPT !.launched = launch(cfg, outcome)]
         /\ IF outcome = "ok"
            THEN task_pc' = "mask" /\ UNCHANGED fault
            ELSE task_pc' = "exit_playwright" /\ fault' = Fault(LaunchError(cfg, outcome))
    /\ UNCHANGED <<tasks, loc, trail>>
    /\ TaskFrame
    /\ UNCHANGED filter_vars
    /\ UNCHANGED extract_vars
    /\ UNCHANGED fallback_vars
    /\ UNCHANGED scraper_vars

\* a process_url that leaves the mask out
mask_left_out(c, added) == [attempted |-> FALSE, registered |-> FALSE]

\* lines 454-472: whether context.add_init_script was called and whether the
\* script is registered; added says that the call returned, its exception
\* being swallowed otherwise
_apply_automation_mask(c, added) ==
    IF ~c.mask_automation THEN [attempted |-> FALSE, registered |-> FALSE]
    ELSE [attempted |-> TRUE, registered |-> added]

\* lines 568-570: _apply_automation_mask, page.on("dialog"); mask_pending: the
\* script is registered and waits for the navigation that runs it
ApplyAutomationMask ==
    /\ InTask("mask")
    /\ \E added \in BOOLEAN :
         LET mask == _apply_automation_mask(cfg, added)
         IN loc' = [loc EXCEPT !.mask_attempted = mask.attempted,
                               !.mask_pending = mask.registered]
    /\ task_pc' = "goto"
    /\ UNCHANGED <<tasks, sess, trail, fault>>
    /\ TaskFrame
    /\ UNCHANGED filter_vars
    /\ UNCHANGED extract_vars
    /\ UNCHANGED fallback_vars
    /\ UNCHANGED scraper_vars

\* line 575: the navigation; when it succeeds the init scripts of the context
\* have run in the page
Goto ==
    /\ InTask("goto")
    /\ trail' = Append(trail, "goto")
    /\ \/ task_pc' = "settle" /\ loc' = [loc EXCEPT !.mask_pending = FALSE]
       \/ \E msg \in GotoErrors : RaiseInTry(msg)
    /\ UNCHANGED <<tasks, sess, fault>>
    /\ TaskFrame
    /\ UNCHANGED filter_vars
    /\ UNCHANGED extract_vars
    /\ UNCHANGED fallback_vars
    /\ UNCHANGED scraper_vars

\* line 576
Settle ==
    /\ InTask("settle")
    /\ trail' = Append(trail, "settle")
    /\ \/ task_pc' = "cookies" /\ UNCHANGED loc
       \/ RaiseInTry(StepError("wait_for_timeout"))
    /\ UNCHANGED <<tasks, sess, fault>>
    /\ TaskFrame
    /\ UNCHANGED filter_vars
    /\ UNCHANGED extract_vars
    /\ UNCHANGED fallback_vars
    /\ UNCHANGED scraper_vars

\* lines 579-588: the inner try passes on every exception
CloseCookieBanners ==
    /\ InTask("cookies")
    /\ trail' = Append(trail, "cookies")
    /\ \E raised \in BOOLEAN : task_pc' = "dismiss"
    /\ UNCHANGED <<tasks, sess, loc, fault>>
    /\ TaskFrame
    /\ UNCHANGED filter_vars
    /\ UNCHANGED extract_vars
    /\ UNCHANGED fallback_vars
    /\ UNCHANGED scraper_vars

\* lines 590-591: _dismiss_telegram_prompt swallows both of its failures
DismissTelegramPrompt ==
    /\ InTask("dismiss")
    /\ trail' = IF cfg.interact_with_telegram THEN Append(trail, "dismiss") ELSE trail
    /\ task_pc' = "click"
    /\ UNCHANGED <<tasks, sess, loc, fault>>
    /\ TaskFrame
    /\ UNCHANGED filter_vars
    /\ UNCHANGED extract_vars
    /\ UNCHANGED fallback_vars
    /\ UNCHANGED scraper_vars

\* lines 592-596: _click_open_in_telegram returns False on an exception; the
\* wait after a click is not guarded
ClickOpenInTelegram ==
    /\ InTask("click")
    /\ IF cfg.capture_with_pyautogui /\ cfg.interact_with_telegram
       THEN /\ trail' = Append(trail, "click")
            /\ \/ /\ loc' = [loc EXCEPT !.telegram_prompt_opened = FALSE]
                  /\ task_pc' = "hide_banner"
               \/ /\ loc' = [loc EXCEPT !.telegram_prompt_opened = TRUE]
                  /\ task_pc' = "hide_banner"
               \/ /\ loc' = [loc EXCEPT !.telegram_prompt_opened = TRUE,
                                        !.exc = StepError("wait_for_timeout")]
                  /\ task_pc' = "except"
       ELSE /\ task_pc' = "hide_banner"
            /\ UNCHANGED <<loc, trail>>
    /\ UNCHANGED <<tasks, sess, fault>>
    /\ TaskFrame
    /\ UNCHANGED filter_vars
    /\ UNCHANGED extract_vars
    /\ UNCHANGED fallback_vars
    /\ UNCHANGED scraper_vars

\* line 601: _hide_automation_banner swallows its failure
HideAutomationBanner ==
    /\ InTask("hide_banner")
    /\ trail' = Append(trail, "hide_banner")
    /\ task_pc' = "screenshot"
    /\ UNCHANGED <<tasks, sess, loc, fault>>
    /\ TaskFrame
    /\ UNCHANGED filter_vars
    /\ UNCHANGED extract_vars
    /\ UNCHANGED fallback_vars
    /\ UNCHANGED scraper_vars

\* what the capture calls of one task do: page.title() returns, the pyautogui
\* capture, the ImageGrab capture and page.screenshot succeed
CaptureEnvs == [title : BOOLEAN, pyautogui : BOOLEAN, imagegrab : BOOLEAN, page : BOOLEAN]

Attempt(path, ok) == [path |-> path, ok |-> ok]

\* lines 354-367: False when Pillow is missing or the grab or the save raises
_capture_with_imagegrab(env) ==
    [attempts |-> <<Attempt("imagegrab", env.imagegrab)>>, ok |-> env.imagegrab]

\* a capture that gives up when pyautogui fails
capture_without_imagegrab(env) ==
    [attempts |-> <<Attempt("pyautogui", env.pyautogui)>>, ok |-> env.pyautogui]

\* lines 329-352: the capture of the browser window's region (of the screen
\* when the window is not found); when pyautogui is missing or raises, the
\* result of _capture_with_imagegrab
_capture_screen_with_pyautogui(env) ==
    IF env.pyautogui
    THEN [attempts |-> <<Attempt("pyautogui", TRUE)>>, ok |-> TRUE]
    ELSE LET grab == _capture_with_imagegrab(env)
         IN [attempts |-> <<Attempt("pyautogui", FALSE)>> \o grab.attempts, ok |-> grab.ok]

\* lines 602-608: the capture paths tried, in order, and the exception that
\* leaves the step
take_screenshot(c, env) ==
    IF c.capture_with_pyautogui
    THEN IF ~env.title THEN [attempts |-> <<>>, exc |-> StepError("page.title")]
         ELSE LET os == _capture_screen_with_pyautogui(env)
              IN IF os.ok THEN [attempts |-> os.attempts, exc |-> ""]
                 ELSE [attempts |-> Append(os.attempts, Attempt("page.screenshot", env.page)),
                       exc |-> IF env.page THEN "" ELSE StepError("page.screenshot")]
    ELSE [attempts |-> <<Attempt("page.screenshot", env.page)>>,
          exc |-> IF env.page THEN "" ELSE StepError("page.screenshot")]

\* the path that produced the image
shot_by(attempts) ==
    IF attempts # <<>> /\ attempts[Len(attempts)].ok THEN attempts[Len(attempts)].path
    ELSE "none"

\* lines 602-609: page.title and the capture chain, then _mask_screenshot_area
\* (which swallows its failure)
TakeScreenshot ==
    /\ InTask("screenshot")
    /\ trail' = Append(trail, "screenshot")
    /\ \E env \in CaptureEnvs :
         LET shot == take_screenshot(cfg, env)
         IN /\ loc' = [loc EXCEPT !.shot_attempts = shot.attempts,
                                  !.shot_by = shot_by(shot.attempts),
                                  !.exc = shot.exc]
            /\ task_pc' = IF shot.exc = "" THEN "telegram_capture" ELSE "except"
    /\ UNCHANGED <<tasks, sess, fault>>
    /\ TaskFrame
    /\ UNCHANGED filter_vars
    /\ UNCHANGED extract_vars
    /\ UNCHANGED fallback_vars
    /\ UNCHANGED scraper_vars

\* what the calls of _capture_telegram_app_window do: pyautogui imports,
\* getWindowsWithTitle("Telegram") finds a window, finds none or raises, the
\* capture of the window's region succeeds
TelegramEnvs == [pyautogui : BOOLEAN, window : {"found", "missing", "raises"}, shot : BOOLEAN]

\* a capture that reports success without a window
capture_without_window(env) ==
    [window |-> IF env.window = "found" THEN "found" ELSE "missing",
     ok |-> TRUE, raised |-> FALSE]

\* lines 428-452: the window it saw, what it returned, whether it raised;
\* getWindowsWithTitle is called outside the try
_capture_telegram_app_window(env) ==
    IF ~env.pyautogui THEN [window |-> "none", ok |-> FALSE, raised |-> FALSE]
    ELSE IF env.window = "raises" THEN [window |-> "none", ok |-> FALSE, raised |-> TRUE]
    ELSE IF env.window = "missing" THEN [window |-> "missing", ok |-> FALSE, raised |-> FALSE]
    ELSE [window |-> "found", ok |-> env.shot, raised |-> FALSE]

\* lines 611-614
CaptureTelegramWindow ==
    /\ InTask("telegram_capture")
    /\ IF cfg.capture_with_pyautogui /\ loc.telegram_prompt_opened
          /\ cfg.interact_with_telegram
       THEN /\ trail' = Append(trail, "telegram_capture")
            /\ \E env \in TelegramEnvs :
                 LET captured == _capture_telegram_app_window(env)
                 IN /\ loc' = [loc EXCEPT
                                  !.telegram_window = captured.window,
                                  !.exc = IF captured.raised
                                          THEN StepError("getWindowsWithTitle") ELSE @]
                    /\ tasks' = IF captured.ok
                                THEN [tasks EXCEPT ![idx] =
                                         SetKey(@, "telegram_screenshot_path",
                                                <<"telegram", @.url>>)]
                                ELSE tasks
                    /\ task_pc' = IF captured.raised THEN "except" ELSE "extract"
       ELSE /\ task_pc' = "extract"
            /\ UNCHANGED <<tasks, loc, trail>>
    /\ UNCHANGED <<sess, fault>>
    /\ TaskFrame
    /\ UNCHANGED filter_vars
    /\ UNCHANGED extract_vars
    /\ UNCHANGED fallback_vars
    /\ UNCHANGED scraper_vars

\* what page.evaluate(script) gives process_url
PageEvaluations == {EvaluateRaised} \cup {Evaluated(blocks) : blocks \in PageBlocks}

\* line 618: _collect_text_blocks returns [] when page.evaluate raises
CollectTextBlocks ==
    /\ InTask("extract")
    /\ trail' = Append(trail, "extract")
    /\ \E evaluated \in PageEvaluations :
         loc' = [loc EXCEPT !.evaluate_raised = evaluated.raised,
                            !.text_blocks = _collect_text_blocks(evaluated)]
    /\ task_pc' = "filter"
    /\ UNCHANGED <<tasks, sess, fault>>
    /\ TaskFrame
    /\ UNCHANGED filter_vars
    /\ UNCHANGED extract_vars
    /\ UNCHANGED fallback_vars
    /\ UNCHANGED scraper_vars

\* a success path that also blanks the record's snippet
record_success_blank_snippet(e, filtered_blocks, extracted_text) ==
    SetKey(SetKey(SetKey(SetKey(SetKey(e, "text_blocks", filtered_blocks),
                                "screenshot_path", <<"screen", e.url>>),
                         "full_text", extracted_text),
                  "snippet", 0),
           "status", "success")

\* lines 643-645
record_success(e, filtered_blocks, extracted_text) ==
    SetKey(SetKey(SetKey(SetKey(e, "text_blocks", filtered_blocks),
                         "screenshot_path", <<"screen", e.url>>),
                  "full_text", extracted_text),
           "status", "success")

\* a pipeline that sends every non-empty block list through the filter
always_filter(c, text_blocks) == text_blocks # <<>>

\* lines 620-621: if text_blocks: if self.use_llm:
use_filter(c, text_blocks) == text_blocks # <<>> /\ c.use_llm

\* lines 620-628 and 643-645: blocks were found; they go through the filter or
\* are passed on as they are
FilterBlocks ==
    /\ InTask("filter")
    /\ loc.text_blocks # <<>>
    /\ trail' = Append(trail, IF use_filter(cfg, loc.text_blocks) THEN "filter"
                              ELSE "passthrough")
    /\ IF use_filter(cfg, loc.text_blocks)
       THEN \E reply \in PageReplies :
              LET out == _filter_blocks_with_llm(loc.text_blocks, cfg.llm_client, reply)
              IN IF out.kind = "raise"
                 THEN RaiseInTry(out.exc) /\ UNCHANGED tasks
                 ELSE /\ tasks' = [tasks EXCEPT ![idx] =
                                      record_success(@, out.value, join_blocks(out.value))]
                      /\ task_pc' = "close_context"
                      /\ UNCHANGED loc
       ELSE LET all == MapSeq(loc.text_blocks, BlockText)
            IN /\ tasks' = [tasks EXCEPT ![idx] = record_success(@, all, join_blocks(all))]
               /\ task_pc' = "close_context"
               /\ UNCHANGED loc
    /\ UNCHANGED <<sess, fault>>
    /\ TaskFrame
    /\ UNCHANGED filter_vars
    /\ UNCHANGED extract_vars
    /\ UNCHANGED fallback_vars
    /\ UNCHANGED scraper_vars

\* lines 629-645: no blocks; the text of the whole page
WholePageFallback ==
    /\ InTask("filter")
    /\ loc.text_blocks = <<>>
    /\ trail' = Append(trail, "fallback")
    /\ \/ /\ tasks' = [tasks EXCEPT ![idx] =
                          record_success(@, <<RawText>>, [sep |-> "\n", parts |-> <<RawText>>])]
          /\ task_pc' = "close_context"
          /\ UNCHANGED loc
       \/ /\ RaiseInTry(StepError("page.content"))
          /\ UNCHANGED tasks
    /\ UNCHANGED <<sess, fault>>
    /\ TaskFrame
    /\ UNCHANGED filter_vars
    /\ UNCHANGED extract_vars
    /\ UNCHANGED fallback_vars
    /\ UNCHANGED scraper_vars

\* an except block that sets the status and drops the message
mark_failed_no_error(e, msg) == SetKey(e, "status", "failed")

\* lines 648-651
mark_failed(e, msg) == SetKey(SetKey(e, "status", "failed"), "error", msg)

HandleException ==
    /\ InTask("except")
    /\ tasks' = [tasks EXCEPT ![idx] = mark_failed(@, loc.exc)]
    /\ task_pc' = "close_context"
    /\ UNCHANGED <<sess, loc, trail, fault>>
    /\ TaskFrame
    /\ UNCHANGED filter_vars
    /\ UNCHANGED extract_vars
    /\ UNCHANGED fallback_vars
    /\ UNCHANGED scraper_vars

\* lines 653-655: finally: if context: await context.close()
CloseContext ==
    /\ InTask("close_context")
    /\ IF "context" \in sess.launched
       THEN /\ sess' = [sess EXCEPT !.close_called = @ \cup {"context"}]
            /\ \/ task_pc' = "close_browser" /\ UNCHANGED fault
               \/ /\ task_pc' = "exit_playwright"
                  /\ fault' = Fault(StepError("context.close"))
       ELSE /\ task_pc' = "close_browser"
            /\ UNCHANGED <<sess, fault>>
    /\ UNCHANGED <<tasks, loc, trail>>
    /\ TaskFrame
    /\ UNCHANGED filter_vars
    /\ UNCHANGED extract_vars
    /\ UNCHANGED fallback_vars
    /\ UNCHANGED scraper_vars

\* lines 656-657: if browser: await browser.close()
CloseBrowser ==
    /\ InTask("close_browser")
    /\ IF "browser" \in sess.launched
       THEN /\ sess' = [sess EXCEPT !.close_called = @ \cup {"browser"}]
            /\ \/ UNCHANGED fault
               \/ fault' = Fault(StepError("browser.close"))
       ELSE UNCHANGED <<sess, fault>>
    /\ task_pc' = "exit_playwright"
    /\ UNCHANGED <<tasks, loc, trail>>
    /\ TaskFrame
    /\ UNCHANGED filter_vars
    /\ UNCHANGED extract_vars
    /\ UNCHANGED fallback_vars
    /\ UNCHANGED scraper_vars

\* the positions at which process_url always awaits a call on the page
AwaitedPageSteps == {"goto", "settle", "cookies", "hide_banner", "extract"}

\* line 570: the page opens a dialog while process_url awaits a page call; the
\* handler registered with page.on("dialog") runs and
\* asyncio.create_task(dialog.dismiss()) puts the dismissal in flight
DialogOpens ==
    /\ main_pc = "task"
    /\ task_pc \in AwaitedPageSteps
    /\ sess' = [sess EXCEPT !.dismissing = TRUE]
    /\ UNCHANGED <<tasks, task_pc, loc, trail, fault>>
    /\ TaskFrame
    /\ UNCHANGED filter_vars
    /\ UNCHANGED extract_vars
    /\ UNCHANGED fallback_vars
    /\ UNCHANGED scraper_vars

\* the dismissal tasks have run to their end, whatever process_url is
\* waiting for
DismissFinishes ==
    /\ main_pc = "task"
    /\ sess.dismissing
    /\ sess' = [sess EXCEPT !.dismissing = FALSE]
    /\ UNCHANGED <<tasks, task_pc, loc, trail, fault>>
    /\ TaskFrame
    /\ UNCHANGED filter_vars
    /\ UNCHANGED extract_vars
    /\ UNCHANGED fallback_vars
    /\ UNCHANGED scraper_vars

\* the exit of "async with async_playwright()": the driver stops, which ends
\* the calls still pending on it; process_url returns the entry (line 659)
\* unless an exception is on its way out
ExitPlaywright ==
    /\ InTask("exit_playwright")
    /\ sess' = [sess EXCEPT !.playwright = "stopped", !.dismissing = FALSE]
    /\ task_pc' = IF fault.raised THEN "raised" ELSE "return"
    /\ UNCHANGED <<tasks, loc, trail, fault>>
    /\ TaskFrame
    /\ UNCHANGED filter_vars
    /\ UNCHANGED extract_vars
    /\ UNCHANGED fallback_vars
    /\ UNCHANGED scraper_vars

Next ==
    \/ ParseInput
    \/ EnterScraper
    \/ NextTask
    \/ ReturnEntry
    \/ TaskRaised
    \/ ExitScraper
    \/ AddEntry
    \/ SaveReport
    \/ StartPlaywright
    \/ LaunchSession
    \/ ApplyAutomationMask
    \/ Goto
    \/ Settle
    \/ CloseCookieBanners
    \/ DismissTelegramPrompt
    \/ ClickOpenInTelegram
    \/ HideAutomationBanner
    \/ TakeScreenshot
    \/ CaptureTelegramWindow
    \/ CollectTextBlocks
    \/ FilterBlocks
    \/ WholePageFallback
    \/ HandleException
    \/ CloseContext
    \/ CloseBrowser
    \/ ExitPlaywright

Spec == Init /\ [][Next]_vars

\* SpecLive: the same run in which main() is never left waiting: asyncio.run
\* drives the one coroutine until it ends, and every call it awaits returns or
\* raises, so a step that can be taken is taken.
SpecLive == Init /\ [][Next]_vars /\ WF_vars(Next)

\* SpecDialogs: the same run on pages that open dialogs.  The dismissal tasks
\* touch nothing process_url reads, so Spec leaves them out.
NextDialogs ==
    \/ Next
    \/ DialogOpens
    \/ DismissFinishes

SpecDialogs == Init /\ [][NextDialogs]_vars

----------------------------------------------------------------------------
(* SpecScraper: one WebScraper is constructed, then _ensure_context and    *)
(* close are called on it in any order                                     *)

\* the truth value Python gives an optional string
bool(value) == value \notin {"None", ""}

\* a constructor that lets an extension run headless
init_ignoring_extension(a) ==
    [headless |-> a.headless /\ ~a.capture_with_pyautogui,
     use_llm |-> a.use_llm,
     capture_with_pyautogui |-> a.capture_with_pyautogui,
     user_data_dir |-> a.user_data_dir,
     extension_path |-> a.extension_path,
     llm_client |-> a.use_llm /\ bool(a.llm_base_url)]

\* lines 32-62: WebScraper.__init__
__init__(a) ==
    LET visible == IF a.capture_with_pyautogui /\ a.headless THEN FALSE ELSE a.headless
        headless == IF bool(a.extension_path) /\ visible THEN FALSE ELSE visible
    IN [headless |-> headless,
        use_llm |-> a.use_llm,
        capture_with_pyautogui |-> a.capture_with_pyautogui,
        user_data_dir |-> a.user_data_dir,
        extension_path |-> a.extension_path,
        llm_client |-> a.use_llm /\ bool(a.llm_base_url)]

\* line 80: use_persistent = bool(self.user_data_dir)
Launch(self) == [use_persistent |-> bool(self.user_data_dir)]

InitScraper ==
    /\ o_pc = "new"
    /\ o_args \in ScraperArgs
    /\ o_self = NoSelf
    /\ o_shared = NoShared
    /\ o_call = NoCall
    /\ FilterIdle
    /\ ExtractIdle
    /\ FallbackIdle
    /\ MainIdle

\* WebScraper(...)
Construct ==
    /\ o_pc = "new"
    /\ o_self' = __init__(o_args)
    /\ o_pc' = "ready"
    /\ UNCHANGED <<o_args, o_shared, o_call>>
    /\ UNCHANGED filter_vars
    /\ UNCHANGED extract_vars
    /\ UNCHANGED fallback_vars
    /\ UNCHANGED main_vars

\* await scraper._ensure_context()
EnsureContextCall ==
    /\ o_pc = "ready"
    /\ \E outcome \in EnsureOutcomes :
         LET r == _ensure_context(o_shared, Launch(o_self), outcome)
         IN /\ o_shared' = r.shared
            /\ o_call' = [name |-> "_ensure_context", raised |-> r.raised,
                          before |-> o_shared, after_close |-> FALSE]
    /\ UNCHANGED <<o_pc, o_args, o_self>>
    /\ UNCHANGED filter_vars
    /\ UNCHANGED extract_vars
    /\ UNCHANGED fallback_vars
    /\ UNCHANGED main_vars

\* await scraper.close()
CloseCall ==
    /\ o_pc = "ready"
    /\ \E outcome \in CloseOutcomes :
         LET r == close(o_shared, outcome)
         IN /\ o_shared' = r.shared
            /\ o_call' = [name |-> "close", raised |-> r.raised, before |-> o_shared,
                          after_close |-> (o_call.name = "close" /\ ~o_call.raised)]
    /\ UNCHANGED <<o_pc, o_args, o_self>>
    /\ UNCHANGED filter_vars
    /\ UNCHANGED extract_vars
    /\ UNCHANGED fallback_vars
    /\ UNCHANGED main_vars

NextScraper ==
    \/ Construct
    \/ EnsureContextCall
    \/ CloseCall

SpecScraper == InitScraper /\ [][NextScraper]_vars

----------------------------------------------------------------------------
(* Claims about the run of main() (Spec) *)

Identity(n) == [i \in 1..n |-> i]

LoopFinished == idx > Len(tasks) /\ main_pc \in {"loop", "report", "done", "aborted"}

StepFailureCaught ==
    /\ main_pc = "task"
    /\ loc.exc # ""
    /\ task_pc \in {"close_context", "close_browser", "exit_playwright", "return", "raised"}

\* C2: an exception raised by a step between navigation and filtering is
\* caught inside process_url: the record gets status "failed" and the
\* exception's message as error, and process_url hands the record back to the
\* batch loop, which goes on, instead of raising and ending the run.
C2_StepFailureContained ==
    StepFailureCaught =>
        /\ Entry.status = "failed"
        /\ Entry.error = loc.exc
        /\ ~fault.raised
        /\ task_pc # "raised"

ProcessUrlLeft == main_pc = "task" /\ task_pc \in {"return", "raised"}

\* C3: on every way out of process_url after a browser or a context was
\* launched, close() was called on the task's context and, when the task
\* launched a browser, on that browser.
C3_SessionReleased ==
    ProcessUrlLeft =>
        /\ "context" \in sess.launched => "context" \in sess.close_called
        /\ "browser" \in sess.launched => "browser" \in sess.close_called

GotoFailed == main_pc = "task" /\ loc.exc \in GotoErrors

\* C4: when page.goto fails, no later step of the pipeline runs for the task,
\* and the record, from the except block on and so when process_url returns it,
\* has status "failed", a non-empty error and no screenshot_path.
C4_GotoFailure ==
    GotoFailed =>
        /\ trail = <<"goto">>
        /\ task_pc # "except" =>
              /\ Has(Entry, "status") /\ Entry.status = "failed"
              /\ Has(Entry, "error") /\ Entry.error # ""
              /\ ~Has(Entry, "screenshot_path")

C4_Witness == GotoFailed /\ task_pc = "return" /\ idx = MaxTasks

ArtifactKeys == {"screenshot_path", "telegram_screenshot_path", "text_blocks", "full_text"}

SuccessShape(e) ==
    /\ e.status = "success"
    /\ {"status", "screenshot_path", "text_blocks", "full_text"} \subseteq e.keys
    /\ "error" \notin e.keys

FailedShape(e) ==
    /\ e.status = "failed"
    /\ {"status", "error"} \subseteq e.keys
    /\ e.keys \cap ArtifactKeys = {}

\* C5: every record process_url returns is a success record (screenshot_path,
\* text_blocks and full_text set, no error) or a failed record (error set, none
\* of the artifact fields added).
C5_TerminalShape ==
    (main_pc = "task" /\ task_pc = "return") => (SuccessShape(Entry) \/ FailedShape(Entry))

\* browser contexts that are open: the one WebScraper holds and the one the
\* process_url call in progress launched and has not closed
OpenContexts ==
    (IF "context" \in shared.live THEN 1 ELSE 0)
    + (IF "context" \in sess.launched /\ "context" \notin sess.close_called THEN 1 ELSE 0)

\* C14: at every point of a run of main(), at most one browser context is open.
C14_AtMostOneSession == OpenContexts <= 1

\* operations in flight: the page call process_url awaits and the dismissals
\* its dialog handler started
OperationsInFlight ==
    (IF sess.dismissing THEN 1 ELSE 0)
    + (IF main_pc = "task" /\ task_pc \in AwaitedPageSteps THEN 1 ELSE 0)

\* C15: at most one browser/page/LLM operation is in flight at any time, the
\* dismissals scheduled by the dialog handler included, and none is in flight
\* once close() was called on the task's context.
C15_OneOperationInFlight ==
    /\ OperationsInFlight <= 1
    /\ "context" \in sess.close_called => ~sess.dismissing

EvaluateFailed == main_pc = "task" /\ loc.evaluate_raised

\* C16: when the evaluation of the extractor's script raises,
\* _collect_text_blocks returns an empty list and the exception goes no
\* further; the step process_url takes next is the whole-page fallback, and
\* unless reading the page content fails the record has status "success" from
\* there on.
C16_ExtractorFailureSoft ==
    EvaluateFailed =>
        /\ loc.text_blocks = <<>>
        /\ loc.exc \in {"", StepError("page.content")}
        /\ task_pc # "filter" =>
              /\ SubSeq(trail, Len(trail) - 1, Len(trail)) = <<"extract", "fallback">>
              /\ loc.exc = "" =>
                    /\ task_pc # "except"
                    /\ Has(Entry, "status") /\ Entry.status = "success"
                    /\ Entry.text_blocks = <<RawText>>
                    /\ ~Has(Entry, "error")

C16_Witness ==
    /\ EvaluateFailed
    /\ task_pc = "return"
    /\ Entry.status = "success"
    /\ Entry.text_blocks = <<RawText>>

\* what add_entry writes for the record processed k-th
EntryOf(k) ==
    LET e == tasks[processed[k]]
    IN [task |-> processed[k], source |-> e.source, date |-> e.date, url |-> e.url,
        failure_notice |-> (e.status = "failed"), page_break |-> TRUE]

\* C17: every processed record, successful or failed, has exactly one report
\* entry, ended by a page break and carrying its source, date and URL; the
\* failure notice is in it if and only if the record's status is "failed"; when
\* main() has ended no processed record is missing from the report.
C17_EveryRecordReported ==
    /\ Len(report) <= Len(processed)
    /\ \A k \in 1..Len(report) : report[k] = EntryOf(k)
    /\ main_pc \in {"done", "aborted"} => Len(report) = Len(processed)

\* C18: when the parser raises or returns an empty list, main() exits at once:
\* no browser session was or will be opened, process_url is not called and no
\* report entry is written.
C18_AbortBeforeWork ==
    parse_outcome \in {"raised", "empty"} =>
        /\ main_pc \in {"exit0", "exit1"}
        /\ main_pc = "exit1" <=> parse_outcome = "raised"
        /\ shared = NoShared
        /\ task_pc = "idle" /\ sess = NoSess /\ trail = <<>>
        /\ tasks = <<>> /\ processed = <<>> /\ report = <<>>

C18_Witness == parse_outcome = "empty" /\ main_pc = "exit0" /\ shared.live = {}

InputFields(e) == <<e.source, e.date, e.title, e.url, e.snippet>>

AddedKeys ==
    {"status", "error", "screenshot_path", "telegram_screenshot_path", "text_blocks",
     "full_text"}

\* C19: process_url works on the record it was given and hands that record
\* back; at every point of every path its source, date, title, url and snippet
\* are what the parser put there, the only keys added are status, error,
\* screenshot_path, telegram_screenshot_path, text_blocks and full_text, and
\* the records of tasks not yet started are untouched.
C19_InputFieldsKept ==
    \A i \in 1..Len(tasks) :
        /\ InputFields(tasks[i]) = InputFields(NewTask(i))
        /\ tasks[i].keys \subseteq AddedKeys
        /\ (i > idx \/ (i = idx /\ main_pc = "loop")) => tasks[i] = NewTask(i)
        /\ (i = idx /\ main_pc = "task" /\ task_pc = "return") => Entry = tasks[i]

C19_Witness ==
    /\ main_pc = "task"
    /\ task_pc = "return"
    /\ idx = MaxTasks
    /\ Entry.keys = AddedKeys \ {"error"}
    /\ InputFields(Entry) = InputFields(NewTask(idx))

\* what __aenter__ opened
SharedOpened ==
    IF cfg.use_persistent THEN {"playwright", "context"}
    ELSE {"playwright", "browser", "context"}

\* C20: once WebScraper.close() was called, whether it returned or raised,
\* close was attempted on the context, the browser and the driver, and
\* _context, _browser and _playwright are all cleared.
C20_NeverHalfClosed ==
    shared.attempted # {} =>
        /\ SharedOpened \subseteq shared.attempted
        /\ ~shared._context /\ ~shared._browser /\ ~shared._playwright

\* the place of a step in the order of the source; the whole-page fallback
\* and the unfiltered pass stand where the filter does
Position(step) ==
    CASE step = "goto" -> 1
      [] step = "settle" -> 2
      [] step = "cookies" -> 3
      [] step = "dismiss" -> 4
      [] step = "click" -> 5
      [] step = "hide_banner" -> 6
      [] step = "screenshot" -> 7
      [] step = "telegram_capture" -> 8
      [] step = "extract" -> 9
      [] step \in {"filter", "passthrough", "fallback"} -> 10

\* navigate, clean, capture, extract, filter
Stage(step) ==
    CASE step \in {"goto", "settle"} -> 1
      [] step \in {"cookies", "dismiss", "click", "hide_banner"} -> 2
      [] step \in {"screenshot", "telegram_capture"} -> 3
      [] step = "extract" -> 4
      [] step \in {"filter", "passthrough", "fallback"} -> 5

StagesDone == {Stage(trail[i]) : i \in 1..Len(trail)}

\* the steps in which an exception with this message is raised
RaisingSteps(msg) ==
    IF msg \in GotoErrors THEN {"goto"}
    ELSE IF msg = StepError("wait_for_timeout") THEN {"settle", "click"}
    ELSE IF msg \in {StepError("page.title"), StepError("page.screenshot")}
    THEN {"screenshot"}
    ELSE IF msg = StepError("getWindowsWithTitle") THEN {"telegram_capture"}
    ELSE IF msg = StepError("page.content") THEN {"fallback"}
    ELSE {"filter"}

\* C21: in every call of process_url the steps run in the order navigate,
\* clean, capture, extract, filter (each step stands later in the pipeline
\* than the one before it and no stage is left out before the one reached, so
\* the screenshot comes before the extraction); status "success" is
\* set only when all five stages were run and none raised; after a step raised
\* into the try block no further step is run: the raising step is the last one.
C21_StepOrder ==
    main_pc = "task" =>
        /\ \A i \in 1..(Len(trail) - 1) : Position(trail[i]) < Position(trail[i + 1])
        /\ trail # <<>> => StagesDone = 1..Stage(trail[Len(trail)])
        /\ (Has(Entry, "status") /\ Entry.status = "success") =>
               /\ StagesDone = 1..5
               /\ loc.exc = ""
        /\ loc.exc # "" =>
               /\ trail # <<>>
               /\ trail[Len(trail)] \in RaisingSteps(loc.exc)

C21_Witness ==
    /\ main_pc = "task"
    /\ task_pc = "return"
    /\ idx = MaxTasks
    /\ trail = <<"goto", "settle", "cookies", "dismiss", "click", "hide_banner",
                 "screenshot", "telegram_capture", "extract", "filter">>
    /\ Entry.status = "success"

\* C22: no failure of a cleaning sub-step (consent-banner dismissal, deeplink
\* dismissal, deeplink click-through with the wait after a successful click,
\* automation-banner hiding) fails the task: no exception reaches the except
\* block from a step of the cleaning stage, so process_url goes on to the
\* screenshot and the record is not marked "failed" because of it.
C22_CleaningNeverFails ==
    (main_pc = "task" /\ loc.exc # "" /\ trail # <<>>) =>
        Stage(trail[Len(trail)]) # 2

Steps == {trail[i] : i \in 1..Len(trail)}

\* C23: the relevance filter is invoked if and only if use_llm is set and the
\* extractor returned at least one block; when it is not set and blocks exist,
\* the record's text_blocks is the texts of all extracted blocks, unchanged and
\* in the extractor's order.
C23_FilterIffEnabled ==
    (main_pc = "task" /\ 5 \in StagesDone) =>
        /\ "filter" \in Steps <=> (cfg.use_llm /\ loc.text_blocks # <<>>)
        /\ (~cfg.use_llm /\ loc.text_blocks # <<>>) =>
               /\ Has(Entry, "text_blocks")
               /\ Entry.text_blocks = MapSeq(loc.text_blocks, BlockText)

C23_Witness ==
    /\ main_pc = "task"
    /\ task_pc = "return"
    /\ ~cfg.use_llm
    /\ "passthrough" \in Steps
    /\ Entry.text_blocks = <<B1.text, B2.text>>

CaptureChain == <<"pyautogui", "imagegrab", "page.screenshot">>

ScreenshotStepRun == main_pc = "task" /\ "screenshot" \in Steps

\* C25: with full-window capture enabled the capture paths are tried in the
\* order pyautogui capture, ImageGrab whole-screen grab, page.screenshot, each
\* only after the one before it failed and always when it failed, so
\* page.screenshot is called if and only if both OS-level paths failed; with it
\* disabled page.screenshot is the only path tried.  When the last path of
\* the chain fails the task fails; a path that succeeds ends the step without
\* an exception.
C25_CaptureChain ==
    ScreenshotStepRun =>
        LET a == loc.shot_attempts
        IN /\ \A k \in 1..Len(a) : \A j \in 1..(k - 1) : ~a[j].ok
           /\ IF cfg.capture_with_pyautogui
              THEN /\ Len(a) <= 3
                   /\ \A k \in 1..Len(a) : a[k].path = CaptureChain[k]
                   /\ a = <<>> <=> loc.exc = StepError("page.title")
                   /\ (a # <<>> /\ ~a[Len(a)].ok) => Len(a) = 3
              ELSE Len(a) = 1 /\ a[1].path = "page.screenshot"
           /\ (\E k \in 1..Len(a) : a[k].path = "page.screenshot") <=>
                  \/ ~cfg.capture_with_pyautogui
                  \/ /\ Len(a) >= 2
                     /\ a[1] = Attempt("pyautogui", FALSE)
                     /\ a[2] = Attempt("imagegrab", FALSE)
           /\ (a # <<>> /\ ~a[Len(a)].ok) =>
                  /\ loc.exc = StepError("page.screenshot")
                  /\ task_pc # "except" => Entry.status = "failed"
           /\ (a # <<>> /\ a[Len(a)].ok) => loc.exc # StepError("page.screenshot")

C25_Witness ==
    /\ main_pc = "task"
    /\ task_pc = "return"
    /\ cfg.capture_with_pyautogui
    /\ loc.shot_attempts = <<Attempt("pyautogui", FALSE), Attempt("imagegrab", FALSE),
                             Attempt("page.screenshot", TRUE)>>
    /\ Entry.status = "success"

\* C26: the deeplink click-through is attempted only when full-window capture
\* and deeplink interaction are both enabled; the record gets
\* telegram_screenshot_path only if, in this task, the click-through reported
\* a triggered deeplink and the capture of the external window, which was
\* found, succeeded; when no external window is found the field stays unset
\* and the step raises nothing: process_url goes on to the extraction.
C26_TelegramCapture ==
    main_pc = "task" =>
        /\ "click" \in Steps => (cfg.capture_with_pyautogui /\ cfg.interact_with_telegram)
        /\ Has(Entry, "telegram_screenshot_path") =>
               /\ "click" \in Steps
               /\ loc.telegram_prompt_opened
               /\ "telegram_capture" \in Steps
               /\ loc.telegram_window = "found"
        /\ loc.telegram_window = "missing" =>
               /\ ~Has(Entry, "telegram_screenshot_path")
               /\ trail[Len(trail)] = "telegram_capture" =>
                      (loc.exc = "" /\ task_pc = "extract")
               /\ loc.exc # StepError("getWindowsWithTitle")

C26_Witness ==
    /\ main_pc = "task"
    /\ task_pc = "return"
    /\ loc.telegram_prompt_opened
    /\ loc.telegram_window = "missing"
    /\ Entry.status = "success"
    /\ ~Has(Entry, "telegram_screenshot_path")

\* C30: with mask_automation set, in every call of process_url, of the first
\* task and of every later one, context.add_init_script was called with the
\* mask script before page.goto is issued; when the registration fails the
\* failure is swallowed: process_url goes on to page.goto with no exception
\* pending.
C30_MaskBeforeGoto ==
    (main_pc = "task" /\ cfg.mask_automation) =>
        /\ (task_pc = "goto" \/ "goto" \in Steps) => loc.mask_attempted
        /\ loc.mask_pending => loc.mask_attempted
        /\ (loc.mask_attempted /\ ~loc.mask_pending /\ trail = <<>>) =>
               /\ task_pc = "goto"
               /\ loc.exc = ""
               /\ ~fault.raised

\* the registration failed in the last task, which is about to navigate
C30_Witness ==
    /\ main_pc = "task"
    /\ task_pc = "goto"
    /\ idx = MaxTasks
    /\ idx > 1
    /\ loc.mask_attempted
    /\ ~loc.mask_pending
    /\ loc.exc = ""

TaskReturned ==
    /\ main_pc = "task"
    /\ task_pc = "return"
    /\ Has(Entry, "status")
    /\ Entry.status \in {"success", "failed"}

\* C32: every call of process_url, also one in which the launch of the
\* browser, the creation of the context or the page, or a close call of the
\* cleanup raises, eventually returns its record, with a terminal status, to
\* the batch loop.
C32_EveryTaskReturned == (main_pc = "task") ~> TaskReturned

----------------------------------------------------------------------------
(* Claims about the relevance filter (SpecFilter) *)

\* s is obtained from t by deleting elements (order kept)
RECURSIVE IsSubsequence(_, _)
IsSubsequence(s, t) ==
    IF s = <<>> THEN TRUE
    ELSE IF t = <<>> THEN FALSE
    ELSE IF Head(s) = Head(t) THEN IsSubsequence(Tail(s), Tail(t))
    ELSE IsSubsequence(s, Tail(t))

InputTexts == MapSeq(f_blocks, BlockText)

FilterDone == f_pc = "done"

\* C6: the list the filter returns is a subsequence of the input block texts
\* in the original order of the blocks.
C6_Subsequence ==
    (FilterDone /\ f_out.kind = "return") => IsSubsequence(f_out.value, InputTexts)

\* C7: for a non-empty block list the filter returns a non-empty list, whatever
\* the LLM configuration and reply; for an empty one it returns an empty list.
C7_NonEmpty ==
    FilterDone =>
        /\ f_out.kind = "return"
        /\ (f_out.value = <<>>) <=> (f_blocks = <<>>)

\* C8: the filter never raises to its caller, whatever the LLM request
\* produces and whatever JSON types the verdict holds.
C8_NeverRaises == FilterDone => f_out.kind # "raise"

VerdictIds == collect_ids(llm_parse(f_reply).value, VerdictKeys, <<>>)

NamesABlock == \E i \in 1..Len(f_blocks) : id_selected(f_blocks[i], VerdictIds)

\* no client, a failed request, a reply that does not parse, a verdict with no
\* ids, a verdict whose ids match no block
FallbackSituation ==
    \/ ~f_client
    \/ ~llm_parse(f_reply).ok
    \/ ~NamesABlock

\* the k-th longest text, ties in length going to the earlier block
Longest(k) ==
    LET i == CHOOSE i \in 1..Len(f_blocks) :
                 Cardinality({j \in 1..Len(f_blocks) :
                     \/ f_blocks[j].text.len > f_blocks[i].text.len
                     \/ f_blocks[j].text.len = f_blocks[i].text.len /\ j < i}) = k - 1
    IN f_blocks[i].text

\* C9: in every fallback situation the result is exactly the texts of the 5
\* longest blocks (all of them when there are fewer), ties in length resolved
\* by original position.
C9_FallbackTopFive ==
    (FilterDone /\ FallbackSituation) =>
        f_out = Returned([k \in 1..Min(TopN, Len(f_blocks)) |-> Longest(k)])

\* C10: when the verdict names at least one id of an input block, the filter
\* returns the texts of exactly the input blocks whose id the verdict names,
\* resolved against the full list, in the original order of the blocks.
C10_SelectionResolved ==
    (FilterDone /\ f_client /\ llm_parse(f_reply).ok /\ NamesABlock) =>
        f_out = Returned(MapSeq(SelectSeq(f_blocks, LAMBDA b :
                                    \E i \in 1..Len(VerdictIds) :
                                        VerdictIds[i] = [type |-> "str", v |-> b.id]),
                                BlockText))

\* the ids one key of the parsed verdict yields on its own
KeyIds(key) ==
    LET value == llm_parse(f_reply).value[key]
    IN IF value.kind = "list" THEN item_ids(value.items) ELSE <<>>

\* the ids of the first of "selected", "keep", "blocks" that yields any
FirstKeyIds ==
    IF KeyIds("selected") # <<>> THEN KeyIds("selected")
    ELSE IF KeyIds("keep") # <<>> THEN KeyIds("keep")
    ELSE KeyIds("blocks")

\* C11: the verdict ids are read from "selected", "keep", "blocks" in that
\* order, a string item giving itself and an object item its "id"; the first
\* key whose list yields an id decides the outcome alone (absent, non-list and
\* id-less keys are skipped, later keys are not read): the call returns the
\* selection resolved from that key's ids, and a raise comes from that key.
C11_FirstKeyWins ==
    (FilterDone /\ f_client /\ f_blocks # <<>> /\ llm_parse(f_reply).ok) =>
        IF \E i \in 1..Len(FirstKeyIds) : ~Hashable(FirstKeyIds[i])
        THEN f_out.kind = "raise"
        ELSE f_out = Returned(resolve_selection(f_blocks, FirstKeyIds))

\* "selected" holds an id-less object, "keep" names block-1, "blocks" block-3
C11_Witness ==
    /\ FilterDone
    /\ f_client
    /\ Len(f_blocks) = 3
    /\ f_reply = TextReply(<<"{", "c", "}">>,
                           Wellformed(Verdict(ListValue(<<DictItem("absent", 0)>>),
                                              ListValue(<<StrItem(1)>>),
                                              ListValue(<<StrItem(3)>>))))
    /\ f_out = Returned(<<f_blocks[1].text>>)

----------------------------------------------------------------------------
(* Claims about the block extractor (SpecExtract) *)

ExtractDone == x_pc = "done"

\* the element the i-th returned block was taken from
SourceElement(i) == x_out[i].text.body[1]

\* C12: no two returned blocks have source elements of which one contains the
\* other (so none is an ancestor of another and no element is emitted twice),
\* for blocks found by the tree walk and by the paragraph fallback alike.
C12_NoNesting ==
    ExtractDone =>
        \A i, j \in 1..Len(x_out) :
            i # j => ~contains(x_dom, SourceElement(i), SourceElement(j))

\* the paragraph fallback on nav > p > p: the outer paragraph is emitted and
\* the inner one, which qualifies by its length, is not
C12_Witness ==
    /\ ExtractDone
    /\ ~x_evaluated.raised
    /\ x_dom.n = 3
    /\ x_dom.tag = <<"nav", "p", "p">>
    /\ x_dom.parent = <<0, 1, 2>>
    /\ walk(x_dom, 0) = <<>>
    /\ RunsLen(trim(innerText(x_dom, 3))) = MIN_LENGTH
    /\ Len(x_out) = 1
    /\ SourceElement(1) = 2

\* C13: the text of every returned block is the trimmed innerText of its
\* element and is between 70 and 2500 characters long.
C13_TrimmedInRange ==
    ExtractDone =>
        \A i \in 1..Len(x_out) :
            /\ x_out[i].text =
                   MkText(<<SourceElement(i)>>,
                          RunsLen(trim(innerText(x_dom, SourceElement(i)))))
            /\ x_out[i].text.len >= MIN_LENGTH
            /\ x_out[i].text.len <= MAX_LENGTH

\* element is, or lies inside, an element with a blacklisted tag
InBlacklisted(dom, element) ==
    \E a \in 1..dom.n : dom.tag[a] \in blacklist /\ contains(dom, a, element)

\* C27: no returned block has a source element that is, or lies inside, a
\* script, style, nav, footer, header, form or noscript element, whether the
\* tree walk or the paragraph fallback found it.
C27_NoBlacklistedSource ==
    ExtractDone =>
        \A i \in 1..Len(x_out) : ~InBlacklisted(x_dom, SourceElement(i))

TrimmedLen(element) == RunsLen(trim(innerText(x_dom, element)))

\* a direct child holds at least 60% of the element's trimmed text
ThinWrapper(element) ==
    \E c \in 1..x_dom.n :
        /\ x_dom.parent[c] = element
        /\ 10 * TrimmedLen(c) >= 6 * TrimmedLen(element)

Emitted == {SourceElement(i) : i \in 1..Len(x_out)}

Accepted == {x_candidates[i].element : i \in 1..Len(x_candidates)}

\* the walk reaches the element and nothing but an ancestor speaks against it
Eligible(walked, element) ==
    /\ \E k \in 1..Len(walked) : walked[k] = element
    /\ TrimmedLen(element) >= MIN_LENGTH
    /\ TrimmedLen(element) <= MAX_LENGTH
    /\ ~ThinWrapper(element)

\* C28: an element with a direct child whose trimmed text is at least 60% of
\* its own is never emitted; its rejection does not keep its descendants from
\* being considered: short of the cap on candidates, an eligible element is
\* accepted unless an accepted element contains it; so a wrapper around a
\* single paragraph of the same text yields exactly one block, the paragraph.
C28_ThinWrapperRejected ==
    (ExtractDone /\ ~x_evaluated.raised) =>
        /\ \A e \in Emitted : ~ThinWrapper(e)
        /\ LET walked == walk(x_dom, 0)
           IN \A e \in 1..x_dom.n :
                  Eligible(walked, e) =>
                      \/ \E a \in Accepted : contains(x_dom, a, e)
                      \/ Len(x_candidates) >= MAX_CANDIDATES
        /\ (/\ x_dom.n = 2
            /\ x_dom.parent = <<0, 1>>
            /\ x_dom.own[1] = <<>>
            /\ x_dom.tag[2] = "p"
            /\ TrimmedLen(2) >= MIN_LENGTH
            /\ TrimmedLen(2) <= MAX_LENGTH) => Emitted = {2} /\ Len(x_out) = 1

\* div > div > p: both wrappers are rejected, the paragraph is the block
C28_Witness ==
    /\ ExtractDone
    /\ ~x_evaluated.raised
    /\ x_dom.n = 3
    /\ x_dom.parent = <<0, 1, 2>>
    /\ x_dom.tag = <<"div", "div", "p">>
    /\ x_dom.own = <<<<>>, <<>>, <<Run(FALSE, MIN_LENGTH)>>>>
    /\ Len(x_out) = 1
    /\ SourceElement(1) = 3

\* C29: the script stops collecting once MAX_CANDIDATES (50) candidates are
\* accepted, and returns at most MAX_OUT (30) blocks: the first accepted
\* candidates, in document order, with ids block-1 .. block-n in output order.
C29_CapsAndIds ==
    (ExtractDone /\ ~x_evaluated.raised) =>
        /\ Len(x_candidates) <= MAX_CANDIDATES
        /\ Len(x_out) = Min(Len(x_candidates), MAX_OUT)
        /\ \A i \in 1..Len(x_out) :
               /\ x_out[i].id = i
               /\ SourceElement(i) = x_candidates[i].element
        /\ \A i, j \in 1..Len(x_candidates) :
               i < j => x_candidates[i].element < x_candidates[j].element

----------------------------------------------------------------------------
(* Claims about the whole-page fallback (SpecFallback) *)

FallbackDone == w_pc = "done"

\* C24: the text_blocks the whole-page fallback gives the record is a list of
\* non-empty, trimmed lines/phrases of the page text left after the
\* non-content tags were removed: no element is empty or begins or ends with
\* white space, and each is one of the phrases of the text.
C24_FallbackLinesTrimmed ==
    FallbackDone =>
        \A i \in 1..Len(w_out.text_blocks) :
            LET t == w_out.text_blocks[i]
            IN /\ t # <<>>
               /\ strip(t) = t
               /\ \E k \in 1..Len(w_out.full_text.parts) : w_out.full_text.parts[k] = t

\* the characters of a text kept as its parts and their separator
Characters(text) ==
    join(IF text.sep = "\n\n" THEN <<"\n", "\n">> ELSE <<"\n">>, text.parts)

\* C33: for a successful record produced by the whole-page fallback, as for
\* one produced from extracted blocks, full_text is the non-empty elements of
\* text_blocks joined by a blank line ("\n\n").
C33_FullTextJoinsBlocks ==
    FallbackDone =>
        Characters(w_out.full_text) =
            Characters([sep |-> "\n\n",
                        parts |-> SelectSeq(w_out.text_blocks, LAMBDA block : block # <<>>)])

----------------------------------------------------------------------------
(* Claims about one WebScraper (SpecScraper) *)

Constructed == o_pc = "ready"

\* a visible window is asked for: full-window capture is enabled or an
\* extension path is set
VisibleRequested == o_args.capture_with_pyautogui \/ o_args.extension_path \notin {"None", ""}

\* C31: whatever the constructor arguments, a WebScraper constructed with
\* full-window capture enabled or with an extension path set has headless =
\* false, whatever headless value was passed; otherwise headless is the value
\* that was passed.
C31_HeadlessForced ==
    Constructed =>
        o_self.headless = (IF VisibleRequested THEN FALSE ELSE o_args.headless)

\* headless was asked for together with an extension
C31_Witness ==
    /\ Constructed
    /\ o_args.headless
    /\ ~o_args.capture_with_pyautogui
    /\ o_args.extension_path = "extension"
    /\ ~o_self.headless

EnsureContextCalled == Constructed /\ o_call.name = "_ensure_context"

CloseAfterClose == Constructed /\ o_call.name = "close" /\ o_call.after_close

\* C34: whatever _ensure_context and close calls are made on one WebScraper,
\* no driver, browser or context is open beside the one the WebScraper
\* holds; _ensure_context called while a context is held changes nothing;
\* close called after a close that returned changes nothing; an
\* _ensure_context that raised leaves no driver or browser open that was not
\* open before it.
C34_OneSharedSession ==
    /\ o_shared.orphaned = {}
    /\ (EnsureContextCalled /\ o_call.before._context) =>
           (o_shared = o_call.before /\ ~o_call.raised)
    /\ CloseAfterClose => (o_shared = o_call.before /\ ~o_call.raised)
    /\ (EnsureContextCalled /\ o_call.raised) =>
           (o_shared.live \cap {"playwright", "browser"}) \subseteq o_call.before.live

====
